---- MODULE Spec2Model ----
(***************************************************************************)
(* The string parsers of bevy-ui-string-parser (src/parser/*.rs): angle,   *)
(* val, color and rect.  A string is a sequence of one-character strings.  *)
(* Three specifications share the variables:                               *)
(*   Spec       one call of one parser: the input string it is given, the  *)
(*              function that was called, and what it returned;            *)
(*   SpecSerde  one call of one serde adapter on a deserializer;           *)
(*   SpecTable  threads that reach the named-color table concurrently.     *)
(***************************************************************************)
EXTENDS Integers, Sequences, FiniteSets, TLC

VARIABLES
    input,          \* the string a parser is called with
    call,           \* the function that was called, "none" before the call
    result,         \* what the call returned
    deserializer,   \* what a serde adapter is handed, "none" outside SpecSerde
    once,           \* the state of the std::sync::Once of CSS_COLOR_TABLE
    table,          \* the storage of CSS_COLOR_TABLE
    building,       \* the HashMap under construction in the initializer
    builds,         \* how often the initializer of CSS_COLOR_TABLE has run
    threads         \* each thread's position, its input and its result

table_vars == <<once, table, building, builds, threads>>

vars == <<input, call, result, deserializer, table_vars>>

(***************************************************************************)
(* Bounds of the model.                                                    *)
(***************************************************************************)
\* longest run of digits on either side of the point in a generated literal
MaxDigits == 2

\* most dimension tokens in a generated rect input
MaxRectTokens == 5

\* most two-digit pairs after the # of a generated hex input
MaxHexPairs == 4

\* longest run of whitespace put before and after a generated input
MaxWs == 2

\* most floats between the parentheses of a generated functional color
MaxChannels == 5

\* the number of threads that reach the named-color table
MaxThreads == 3

(***************************************************************************)
(* Strings.                                                                *)
(***************************************************************************)
\* the first n characters of s, or all of s when it is shorter
Take(s, n) == SubSeq(s, 1, IF n < Len(s) THEN n ELSE Len(s))

\* s without its first n characters
Drop(s, n) == SubSeq(s, n + 1, Len(s))

StartsWith(s, t) == Len(s) >= Len(t) /\ SubSeq(s, 1, Len(t)) = t

EndsWith(s, t) == Len(s) >= Len(t) /\ Drop(s, Len(s) - Len(t)) = t

RECURSIVE SpanLen(_, _)
\* the number of leading characters of s that are in the set S
SpanLen(s, S) ==
    IF s # <<>> /\ Head(s) \in S THEN 1 + SpanLen(Tail(s), S) ELSE 0

RECURSIVE SpanLenBack(_, _)
\* the number of trailing characters of s that are in the set S
SpanLenBack(s, S) ==
    IF s # <<>> /\ s[Len(s)] \in S
    THEN 1 + SpanLenBack(SubSeq(s, 1, Len(s) - 1), S)
    ELSE 0

\* nom's multispace0 accepts spaces, tabs, carriage returns and line feeds
MultispaceChars == {" ", "\t", "\r", "\n"}

\* str::trim removes Unicode White_Space, which also holds the form feed
TrimChars == MultispaceChars \cup {"\f"}

DigitChars == {"0", "1", "2", "3", "4", "5", "6", "7", "8", "9"}

DigitVal(c) ==
    CASE c = "0" -> 0 [] c = "1" -> 1 [] c = "2" -> 2 [] c = "3" -> 3
      [] c = "4" -> 4 [] c = "5" -> 5 [] c = "6" -> 6 [] c = "7" -> 7
      [] c = "8" -> 8 [] c = "9" -> 9

\* str::trim_end
trim_end(t) == SubSeq(t, 1, Len(t) - SpanLenBack(t, TrimChars))

\* str::trim
trim(s) == trim_end(Drop(s, SpanLen(s, TrimChars)))

(***************************************************************************)
(* nom results: Ok((rest, value)), Err(Error), Err(Failure) and            *)
(* Err(Incomplete).  The wrappers' Option is Some(value) or None.          *)
(***************************************************************************)
Ok(rest, val) == [tag |-> "Ok", rest |-> rest, val |-> val]

Err(kind) == [tag |-> kind]

Some(val) == [some |-> TRUE, val |-> val]

None == [some |-> FALSE]

NoResult == [tag |-> "none"]

\* nom::character::complete::multispace0: never fails
multispace(s) == Drop(s, SpanLen(s, MultispaceChars))

\* nom::bytes::complete::tag
tag(t, s) == IF StartsWith(s, t) THEN Ok(Drop(s, Len(t)), t) ELSE Err("Error")

\* a combinator that hands every result on as it is
complete_passes(r) == r

\* nom::combinator::complete: an Incomplete becomes an ordinary Error
complete(r) == IF r.tag = "Incomplete" THEN Err("Error") ELSE r

\* nom::combinator::map, applied to the result r of the inner parser
map(r, F(_)) == IF r.tag = "Ok" THEN Ok(r.rest, F(r.val)) ELSE r

\* one step of nom::sequence::tuple: after the result r of the parsers so
\* far, the next parser P gets the rest of the input and the value read
and_then(r, P(_, _)) == IF r.tag = "Ok" THEN P(r.rest, r.val) ELSE r

\* delimited without its closing multispace: the rest is left as it is
then_multispace_left(r) == r

\* the closing multispace of nom::sequence::delimited
then_multispace(r) ==
    IF r.tag = "Ok" THEN Ok(multispace(r.rest), r.val) ELSE r

\* Result::map(|(_, value)| value).ok()
value_ok(r) == IF r.tag = "Ok" THEN Some(r.val) ELSE None

RECURSIVE alt(_)
\* nom::branch::alt: the first alternative that does not end in Err(Error);
\* an Err(Failure) or Err(Incomplete) is returned without trying the rest
alt(rs) ==
    IF rs = <<>> THEN Err("Error")
    ELSE IF Head(rs).tag # "Error" THEN Head(rs)
    ELSE alt(Tail(rs))

(***************************************************************************)
(* f32 values.  A value is the exact rational n/d in lowest terms times    *)
(* (pi/180)^p; within the literals of this model the rounding to f32 maps  *)
(* equal rationals to equal floats.  cls tells finite values from the      *)
(* infinities and NaN.                                                     *)
(***************************************************************************)
RECURSIVE Gcd(_, _)
Gcd(a, b) == IF b = 0 THEN a ELSE Gcd(b, a % b)

Abs(a) == IF a < 0 THEN 0 - a ELSE a

RECURSIVE Pow10(_)
Pow10(k) == IF k = 0 THEN 1 ELSE 10 * Pow10(k - 1)

\* n/d reduced by their common divisor g
Reduced(n, d, p, g) ==
    [cls |-> "finite", n |-> n \div g, d |-> d \div g, p |-> p]

\* the float n/d * (pi/180)^p
Ratio(n, d, p) ==
    IF n = 0
    THEN [cls |-> "finite", n |-> 0, d |-> 1, p |-> 0]
    ELSE Reduced(n, d, p, Gcd(Abs(n), d))

Special(c) == [cls |-> c, n |-> 0, d |-> 1, p |-> 0]

\* the float m * 10^e10
Decimal(m, e10) ==
    IF e10 >= 0 THEN Ratio(m * Pow10(e10), 1, 0)
    ELSE Ratio(m, Pow10(0 - e10), 0)

\* f32::to_radians: the value times pi/180
to_radians(v) == IF v.cls = "finite" THEN Ratio(v.n, v.d, v.p + 1) ELSE v

\* u8 as f32 / u8::MAX as f32
ByteToF32(b) == Ratio(b, 255, 0)

RECURSIVE DigitsToInt(_)
DigitsToInt(s) ==
    IF s = <<>> THEN 0
    ELSE 10 * DigitsToInt(SubSeq(s, 1, Len(s) - 1)) + DigitVal(s[Len(s)])

\* an optional sign and digits
SignedInt(t) ==
    IF t # <<>> /\ Head(t) = "-" THEN 0 - DigitsToInt(Tail(t))
    ELSE IF t # <<>> /\ Head(t) = "+" THEN DigitsToInt(Tail(t))
    ELSE DigitsToInt(t)

\* from_str: the exponent part ex ("" or e/E and a signed integer)
F32Exponent(ex) == IF ex = <<>> THEN 0 ELSE SignedInt(Tail(ex))

\* from_str: integer digits ip, fraction digits fp, exponent part ex
F32Parts(ip, fp, ex) ==
    Decimal(DigitsToInt(ip \o fp), F32Exponent(ex) - Len(fp))

\* from_str: integer digits ip, then b2 = fraction digits and exponent part
F32Fraction(ip, b2) ==
    F32Parts(ip, Take(b2, SpanLen(b2, DigitChars)),
             Drop(b2, SpanLen(b2, DigitChars)))

\* from_str: integer digits ip, then b1 = the point and what follows it
F32Point(ip, b1) ==
    F32Fraction(ip, IF b1 # <<>> /\ Head(b1) = "." THEN Tail(b1) ELSE b1)

\* from_str of an unsigned text b that recognize_float accepted
F32Unsigned(b) ==
    F32Point(Take(b, SpanLen(b, DigitChars)), Drop(b, SpanLen(b, DigitChars)))

\* the float with its sign changed
Negated(v) == [v EXCEPT !.n = 0 - v.n]

\* <f32 as FromStr>::from_str of a text t that recognize_float accepted
ParseF32(t) ==
    IF Head(t) = "-" THEN Negated(F32Unsigned(Tail(t)))
    ELSE IF Head(t) = "+" THEN F32Unsigned(Tail(t))
    ELSE F32Unsigned(t)

(***************************************************************************)
(* nom::number::{complete,streaming}::float.  The streaming readers signal *)
(* Incomplete when they reach the end of the input without seeing the      *)
(* character that ends their match.  A recognizer returns the length of    *)
(* its match.                                                              *)
(***************************************************************************)
Len0(t) == [tag |-> t, len |-> 0]

LenOk(n) == [tag |-> "Ok", len |-> n]

\* digit1 on an input of length len that starts with n digits
digit1_of(len, n, streaming) ==
    IF streaming /\ n = len THEN Len0("Incomplete")
    ELSE IF n = 0 THEN Len0("Error")
    ELSE LenOk(n)

\* nom::character::{complete,streaming}::digit1
digit1(s, streaming) == digit1_of(Len(s), SpanLen(s, DigitChars), streaming)

\* opt(alt((char('+'), char('-'))))
float_sign(s, streaming) ==
    IF s = <<>> THEN (IF streaming THEN Len0("Incomplete") ELSE LenOk(0))
    ELSE IF Head(s) \in {"+", "-"} THEN LenOk(1)
    ELSE LenOk(0)

\* opt(digit1) after the point that follows n integer digits
float_fraction(n, f) ==
    IF f.tag = "Incomplete" THEN f ELSE LenOk(n + 1 + f.len)

\* opt(pair(char('.'), opt(digit1))) on r, after n integer digits
float_point(r, streaming, n) ==
    IF r = <<>> THEN (IF streaming THEN Len0("Incomplete") ELSE LenOk(n))
    ELSE IF Head(r) # "." THEN LenOk(n)
    ELSE float_fraction(n, digit1(Tail(r), streaming))

\* tuple((char('.'), digit1)): the digits f after the point
float_point_first(f) == IF f.tag = "Ok" THEN LenOk(1 + f.len) ELSE f

\* alt((digit1 opt('.' opt(digit1)), '.' digit1)) given d = digit1(s)
float_mantissa_of(s, streaming, d) ==
    IF d.tag = "Ok" THEN float_point(Drop(s, d.len), streaming, d.len)
    ELSE IF d.tag = "Incomplete" THEN d
    ELSE IF s = <<>> \/ Head(s) # "." THEN Len0("Error")
    ELSE float_point_first(digit1(Tail(s), streaming))

float_mantissa(s, streaming) ==
    float_mantissa_of(s, streaming, digit1(s, streaming))

\* cut(digit1) after e/E and a sign of length n
float_exponent_digits(n, d) ==
    IF d.tag = "Ok" THEN LenOk(1 + n + d.len)
    ELSE IF d.tag = "Error" THEN Len0("Failure")
    ELSE d

\* opt(sign) and cut(digit1) on t, the input after e/E
float_exponent_of(t, streaming, sg) ==
    IF sg.tag # "Ok" THEN sg
    ELSE float_exponent_digits(sg.len, digit1(Drop(t, sg.len), streaming))

\* opt(tuple((alt((char('e'), char('E'))), opt(sign), cut(digit1))))
float_exponent(s, streaming) ==
    IF s = <<>> THEN (IF streaming THEN Len0("Incomplete") ELSE LenOk(0))
    ELSE IF Head(s) \notin {"e", "E"} THEN LenOk(0)
    ELSE float_exponent_of(Tail(s), streaming, float_sign(Tail(s), streaming))

\* the length n read so far and the length of the next part e
add_len(n, e) == IF e.tag = "Ok" THEN LenOk(n + e.len) ELSE e

\* recognize_float after the sign of length n: mantissa m, then exponent
recognize_float_mantissa(s, streaming, n, m) ==
    IF m.tag # "Ok" THEN m
    ELSE add_len(n + m.len, float_exponent(Drop(s, n + m.len), streaming))

\* recognize_float after the sign sg
recognize_float_sign(s, streaming, sg) ==
    IF sg.tag # "Ok" THEN sg
    ELSE recognize_float_mantissa(s, streaming, sg.len,
                                  float_mantissa(Drop(s, sg.len), streaming))

\* recognize_float: the length of the literal at the start of s
recognize_float(s, streaming) ==
    recognize_float_sign(s, streaming, float_sign(s, streaming))

UpperOf(c) ==
    CASE c = "a" -> "A" [] c = "b" -> "B" [] c = "c" -> "C" [] c = "d" -> "D"
      [] c = "e" -> "E" [] c = "f" -> "F" [] c = "g" -> "G" [] c = "h" -> "H"
      [] c = "i" -> "I" [] c = "j" -> "J" [] c = "k" -> "K" [] c = "l" -> "L"
      [] c = "m" -> "M" [] c = "n" -> "N" [] c = "o" -> "O" [] c = "p" -> "P"
      [] c = "q" -> "Q" [] c = "r" -> "R" [] c = "s" -> "S" [] c = "t" -> "T"
      [] c = "u" -> "U" [] c = "v" -> "V" [] c = "w" -> "W" [] c = "x" -> "X"
      [] c = "y" -> "Y" [] c = "z" -> "Z" [] OTHER -> c

\* tag_no_case of a lowercase tag t
StartsWithNoCase(s, t) ==
    /\ Len(s) >= Len(t)
    /\ \A i \in 1..Len(t) : s[i] = t[i] \/ s[i] = UpperOf(t[i])

\* float given r = recognize_float(s): the text is parsed; where no number
\* is recognized, "nan" and "inf" are accepted in any case
float_of(s, r) ==
    IF r.tag = "Ok" THEN Ok(Drop(s, r.len), ParseF32(Take(s, r.len)))
    ELSE IF r.tag # "Error" THEN Err(r.tag)
    ELSE IF StartsWithNoCase(s, <<"n", "a", "n">>)
         THEN Ok(Drop(s, 3), Special("nan"))
    ELSE IF StartsWithNoCase(s, <<"i", "n", "f">>)
         THEN Ok(Drop(s, 3), Special("inf"))
    ELSE Err("Error")

\* nom::number::complete::float (angle.rs, color.rs) and
\* nom::number::streaming::float (val.rs)
float(s, streaming) == float_of(s, recognize_float(s, streaming))

\* tuple((float, tag(t))), keeping the float
float_tag(s, streaming, t) ==
    and_then(float(s, streaming),
             LAMBDA rest, v : map(tag(t, rest), LAMBDA x : v))

(***************************************************************************)
(* angle.rs                                                                *)
(***************************************************************************)
\* map(tuple((float, tag("deg"))), |(val, _)| val.to_radians())
angle_deg(i) == map(float_tag(i, FALSE, <<"d", "e", "g">>), to_radians)

\* map(tuple((float, tag("rad"))), |(val, _)| val)
angle_rad(i) == float_tag(i, FALSE, <<"r", "a", "d">>)

\* map(float, |val| val)
angle_bare(i) == float(i, FALSE)

\* the alternatives with the bare float tried before the suffixed ones
angle_alternatives_bare_first(i) ==
    alt(<<angle_bare(i), angle_deg(i), angle_rad(i)>>)

\* alt((deg, rad, bare float))
angle_alternatives(i) == alt(<<angle_deg(i), angle_rad(i), angle_bare(i)>>)

\* alt((...))(input.trim())
angle_parser(s) == angle_alternatives(trim(s))

\* angle_parser(input).map(|(_, value)| value).ok()
angle_string_parser(s) == value_ok(angle_parser(s))

(***************************************************************************)
(* val.rs                                                                  *)
(***************************************************************************)
ValAuto == [kind |-> "Auto"]

ValOf(kind, f) == [kind |-> kind, f |-> f]

\* map(tag("auto"), |_| Val::Auto)
val_auto(i) == map(tag(<<"a", "u", "t", "o">>, i), LAMBDA x : ValAuto)

\* map(tuple((float, tag(suffix))), |(val, _)| Val::Kind(val))
val_unit(i, suffix, kind) ==
    map(float_tag(i, TRUE, suffix), LAMBDA v : ValOf(kind, v))

\* the alternatives of val_parser built as angle.rs builds its own: the
\* complete float reader, and the bare float as the last alternative
val_alternatives_with_bare(i) ==
    alt(<<val_auto(i),
          map(float_tag(i, FALSE, <<"p", "x">>), LAMBDA v : ValOf("Px", v)),
          map(float_tag(i, FALSE, <<"%">>), LAMBDA v : ValOf("Percent", v)),
          map(float_tag(i, FALSE, <<"v", "w">>), LAMBDA v : ValOf("Vw", v)),
          map(float_tag(i, FALSE, <<"v", "h">>), LAMBDA v : ValOf("Vh", v)),
          map(float_tag(i, FALSE, <<"v", "m", "i", "n">>),
              LAMBDA v : ValOf("VMin", v)),
          map(float_tag(i, FALSE, <<"v", "m", "a", "x">>),
              LAMBDA v : ValOf("VMax", v)),
          map(float(i, FALSE), LAMBDA v : ValOf("Px", v))>>)

\* the alternatives of val_parser with vmin and vmax exchanged
val_alternatives_swapped(i) ==
    alt(<<val_auto(i),
          val_unit(i, <<"p", "x">>, "Px"),
          val_unit(i, <<"%">>, "Percent"),
          val_unit(i, <<"v", "w">>, "Vw"),
          val_unit(i, <<"v", "h">>, "Vh"),
          val_unit(i, <<"v", "m", "i", "n">>, "VMax"),
          val_unit(i, <<"v", "m", "a", "x">>, "VMin")>>)

\* alt((auto, px, %, vw, vh, vmin, vmax))
val_alternatives(i) ==
    alt(<<val_auto(i),
          val_unit(i, <<"p", "x">>, "Px"),
          val_unit(i, <<"%">>, "Percent"),
          val_unit(i, <<"v", "w">>, "Vw"),
          val_unit(i, <<"v", "h">>, "Vh"),
          val_unit(i, <<"v", "m", "i", "n">>, "VMin"),
          val_unit(i, <<"v", "m", "a", "x">>, "VMax")>>)

\* val_parser that takes a token only when whitespace or the end of the
\* input follows it
val_parser_whole_word(s) ==
    and_then(val_alternatives(multispace(s)),
             LAMBDA rest, v :
                 IF rest = <<>> \/ Head(rest) \in MultispaceChars
                 THEN Ok(multispace(rest), v)
                 ELSE Err("Error"))

\* delimited(multispace, alt((...)), multispace)
val_parser(s) == then_multispace(val_alternatives(multispace(s)))

\* val_parser(input).map(|(_, value)| value).ok()
val_string_parser(s) == value_ok(val_parser(s))

(***************************************************************************)
(* rect.rs                                                                 *)
(***************************************************************************)
\* bevy::ui::UiRect::new(left, right, top, bottom)
UiRect_new(left, right, top, bottom) ==
    [left |-> left, right |-> right, top |-> top, bottom |-> bottom]

\* bevy::ui::UiRect::all(value)
UiRect_all(v) == UiRect_new(v, v, v, v)

RECURSIVE val_tuple(_, _)
\* tuple((preceded(multispace, val_parser), ...)) of n elements: the values
\* in order, or the first error
val_tuple(s, n) ==
    IF n = 0 THEN Ok(s, <<>>)
    ELSE and_then(val_parser(multispace(s)),
                  LAMBDA rest, v :
                      map(val_tuple(rest, n - 1), LAMBDA vs : <<v>> \o vs))

\* |(top, right, bottom, left)| UiRect::new(left, right, top, bottom)
four_rect_parser(s) ==
    map(complete(val_tuple(s, 4)),
        LAMBDA v : UiRect_new(v[4], v[2], v[1], v[3]))

\* |(top, left_right, bottom)| UiRect::new(left_right, left_right, top, bottom)
three_rect_parser(s) ==
    map(complete(val_tuple(s, 3)),
        LAMBDA v : UiRect_new(v[2], v[2], v[1], v[3]))

\* |(top_bottom, left_right)|
\*     UiRect::new(left_right, left_right, top_bottom, top_bottom)
two_rect_parser(s) ==
    map(complete(val_tuple(s, 2)),
        LAMBDA v : UiRect_new(v[2], v[2], v[1], v[1]))

\* complete(map(preceded(multispace, val_parser), UiRect::all))
one_rect_parser(s) ==
    map(complete(val_tuple(s, 1)), LAMBDA v : UiRect_all(v[1]))

\* the arities tried shortest first
rect_parser_shortest_first(s) ==
    alt(<<one_rect_parser(s), two_rect_parser(s),
          three_rect_parser(s), four_rect_parser(s)>>)

\* alt((four_rect_parser, three_rect_parser, two_rect_parser, one_rect_parser))
rect_parser(s) ==
    alt(<<four_rect_parser(s), three_rect_parser(s),
          two_rect_parser(s), one_rect_parser(s)>>)

\* rect_parser(input).map(|(_, value)| value).ok()
rect_string_parser(s) == value_ok(rect_parser(s))

(***************************************************************************)
(* color.rs                                                                *)
(***************************************************************************)
\* the entries of CSS_COLOR_TABLE: the name and the argument of Color::hex
CssColorEntries == <<
    <<<<"a", "l", "i", "c", "e", "b", "l", "u", "e">>,
      <<"F", "0", "F", "8", "F", "F">>>>,
    <<<<"a", "n", "t", "i", "q", "u", "e", "w", "h", "i", "t", "e">>,
      <<"F", "A", "E", "B", "D", "7">>>>,
    <<<<"a", "q", "u", "a">>,
      <<"0", "0", "F", "F", "F", "F">>>>,
    <<<<"a", "q", "u", "a", "m", "a", "r", "i", "n", "e">>,
      <<"7", "F", "F", "F", "D", "4">>>>,
    <<<<"a", "z", "u", "r", "e">>,
      <<"F", "0", "F", "F", "F", "F">>>>,
    <<<<"b", "e", "i", "g", "e">>,
      <<"F", "5", "F", "5", "D", "C">>>>,
    <<<<"b", "i", "s", "q", "u", "e">>,
      <<"F", "F", "E", "4", "C", "4">>>>,
    <<<<"b", "l", "a", "c", "k">>,
      <<"0", "0", "0", "0", "0", "0">>>>,
    <<<<"b", "l", "a", "n", "c", "h", "e", "d", "a", "l", "m", "o", "n", "d">>,
      <<"F", "F", "E", "B", "C", "D">>>>,
    <<<<"b", "l", "u", "e">>,
      <<"0", "0", "0", "0", "F", "F">>>>,
    <<<<"b", "l", "u", "e", "v", "i", "o", "l", "e", "t">>,
      <<"8", "A", "2", "B", "E", "2">>>>,
    <<<<"b", "r", "o", "w", "n">>,
      <<"A", "5", "2", "A", "2", "A">>>>,
    <<<<"b", "u", "r", "l", "y", "w", "o", "o", "d">>,
      <<"D", "E", "B", "8", "8", "7">>>>,
    <<<<"c", "a", "d", "e", "t", "b", "l", "u", "e">>,
      <<"5", "F", "9", "E", "A", "0">>>>,
    <<<<"c", "h", "a", "r", "t", "r", "e", "u", "s", "e">>,
      <<"7", "F", "F", "F", "0", "0">>>>,
    <<<<"c", "h", "o", "c", "o", "l", "a", "t", "e">>,
      <<"D", "2", "6", "9", "1", "E">>>>,
    <<<<"c", "o", "r", "a", "l">>,
      <<"F", "F", "7", "F", "5", "0">>>>,
    <<<<"c", "o", "r", "n", "f", "l", "o", "w", "e", "r", "b", "l", "u", "e">>,
      <<"6", "4", "9", "5", "E", "D">>>>,
    <<<<"c", "o", "r", "n", "s", "i", "l", "k">>,
      <<"F", "F", "F", "8", "D", "C">>>>,
    <<<<"c", "r", "i", "m", "s", "o", "n">>,
      <<"D", "C", "1", "4", "3", "C">>>>,
    <<<<"c", "y", "a", "n">>,
      <<"0", "0", "F", "F", "F", "F">>>>,
    <<<<"d", "a", "r", "k", "b", "l", "u", "e">>,
      <<"0", "0", "0", "0", "8", "B">>>>,
    <<<<"d", "a", "r", "k", "c", "y", "a", "n">>,
      <<"0", "0", "8", "B", "8", "B">>>>,
    <<<<"d", "a", "r", "k", "g", "o", "l", "d", "e", "n", "r", "o", "d">>,
      <<"B", "8", "8", "6", "0", "B">>>>,
    <<<<"d", "a", "r", "k", "g", "r", "a", "y">>,
      <<"A", "9", "A", "9", "A", "9">>>>,
    <<<<"d", "a", "r", "k", "g", "r", "e", "e", "n">>,
      <<"0", "0", "6", "4", "0", "0">>>>,
    <<<<"d", "a", "r", "k", "g", "r", "e", "y">>,
      <<"A", "9", "A", "9", "A", "9">>>>,
    <<<<"d", "a", "r", "k", "k", "h", "a", "k", "i">>,
      <<"B", "D", "B", "7", "6", "B">>>>,
    <<<<"d", "a", "r", "k", "m", "a", "g", "e", "n", "t", "a">>,
      <<"8", "B", "0", "0", "8", "B">>>>,
    <<<<"d", "a", "r", "k", "o", "l", "i", "v", "e", "g", "r", "e", "e", "n">>,
      <<"5", "5", "6", "B", "2", "F">>>>,
    <<<<"d", "a", "r", "k", "o", "r", "a", "n", "g", "e">>,
      <<"F", "F", "8", "C", "0", "0">>>>,
    <<<<"d", "a", "r", "k", "o", "r", "c", "h", "i", "d">>,
      <<"9", "9", "3", "2", "C", "C">>>>,
    <<<<"d", "a", "r", "k", "r", "e", "d">>,
      <<"8", "B", "0", "0", "0", "0">>>>,
    <<<<"d", "a", "r", "k", "s", "a", "l", "m", "o", "n">>,
      <<"E", "9", "9", "6", "7", "A">>>>,
    <<<<"d", "a", "r", "k", "s", "e", "a", "g", "r", "e", "e", "n">>,
      <<"8", "F", "B", "C", "8", "F">>>>,
    <<<<"d", "a", "r", "k", "s", "l", "a", "t", "e", "b", "l", "u", "e">>,
      <<"4", "8", "3", "D", "8", "B">>>>,
    <<<<"d", "a", "r", "k", "s", "l", "a", "t", "e", "g", "r", "a", "y">>,
      <<"2", "F", "4", "F", "4", "F">>>>,
    <<<<"d", "a", "r", "k", "s", "l", "a", "t", "e", "g", "r", "e", "y">>,
      <<"2", "F", "4", "F", "4", "F">>>>,
    <<<<"d", "a", "r", "k", "t", "u", "r", "q", "u", "o", "i", "s", "e">>,
      <<"0", "0", "C", "E", "D", "1">>>>,
    <<<<"d", "a", "r", "k", "v", "i", "o", "l", "e", "t">>,
      <<"9", "4", "0", "0", "D", "3">>>>,
    <<<<"d", "e", "e", "p", "p", "i", "n", "k">>,
      <<"F", "F", "1", "4", "9", "3">>>>,
    <<<<"d", "e", "e", "p", "s", "k", "y", "b", "l", "u", "e">>,
      <<"0", "0", "B", "F", "F", "F">>>>,
    <<<<"d", "i", "m", "g", "r", "a", "y">>,
      <<"6", "9", "6", "9", "6", "9">>>>,
    <<<<"d", "i", "m", "g", "r", "e", "y">>,
      <<"6", "9", "6", "9", "6", "9">>>>,
    <<<<"d", "o", "d", "g", "e", "r", "b", "l", "u", "e">>,
      <<"1", "E", "9", "0", "F", "F">>>>,
    <<<<"f", "i", "r", "e", "b", "r", "i", "c", "k">>,
      <<"B", "2", "2", "2", "2", "2">>>>,
    <<<<"f", "l", "o", "r", "a", "l", "w", "h", "i", "t", "e">>,
      <<"F", "F", "F", "A", "F", "0">>>>,
    <<<<"f", "o", "r", "e", "s", "t", "g", "r", "e", "e", "n">>,
      <<"2", "2", "8", "B", "2", "2">>>>,
    <<<<"f", "u", "c", "h", "s", "i", "a">>,
      <<"F", "F", "0", "0", "F", "F">>>>,
    <<<<"g", "a", "i", "n", "s", "b", "o", "r", "o">>,
      <<"D", "C", "D", "C", "D", "C">>>>,
    <<<<"g", "h", "o", "s", "t", "w", "h", "i", "t", "e">>,
      <<"F", "8", "F", "8", "F", "F">>>>,
    <<<<"g", "o", "l", "d">>,
      <<"F", "F", "D", "7", "0", "0">>>>,
    <<<<"g", "o", "l", "d", "e", "n", "r", "o", "d">>,
      <<"D", "A", "A", "5", "2", "0">>>>,
    <<<<"g", "r", "a", "y">>,
      <<"8", "0", "8", "0", "8", "0">>>>,
    <<<<"g", "r", "e", "e", "n">>,
      <<"0", "0", "8", "0", "0", "0">>>>,
    <<<<"g", "r", "e", "e", "n", "y", "e", "l", "l", "o", "w">>,
      <<"A", "D", "F", "F", "2", "F">>>>,
    <<<<"g", "r", "e", "y">>,
      <<"8", "0", "8", "0", "8", "0">>>>,
    <<<<"h", "o", "n", "e", "y", "d", "e", "w">>,
      <<"F", "0", "F", "F", "F", "0">>>>,
    <<<<"h", "o", "t", "p", "i", "n", "k">>,
      <<"F", "F", "6", "9", "B", "4">>>>,
    <<<<"i", "n", "d", "i", "a", "n", "r", "e", "d">>,
      <<"C", "D", "5", "C", "5", "C">>>>,
    <<<<"i", "n", "d", "i", "g", "o">>,
      <<"4", "B", "0", "0", "8", "2">>>>,
    <<<<"i", "v", "o", "r", "y">>,
      <<"F", "F", "F", "F", "F", "0">>>>,
    <<<<"k", "h", "a", "k", "i">>,
      <<"F", "0", "E", "6", "8", "C">>>>,
    <<<<"l", "a", "v", "e", "n", "d", "e", "r">>,
      <<"E", "6", "E", "6", "F", "A">>>>,
    <<<<"l", "a", "v", "e", "n", "d", "e", "r", "b", "l", "u", "s", "h">>,
      <<"F", "F", "F", "0", "F", "5">>>>,
    <<<<"l", "a", "w", "n", "g", "r", "e", "e", "n">>,
      <<"7", "C", "F", "C", "0", "0">>>>,
    <<<<"l", "e", "m", "o", "n", "c", "h", "i", "f", "f", "o", "n">>,
      <<"F", "F", "F", "A", "C", "D">>>>,
    <<<<"l", "i", "g", "h", "t", "b", "l", "u", "e">>,
      <<"A", "D", "D", "8", "E", "6">>>>,
    <<<<"l", "i", "g", "h", "t", "c", "o", "r", "a", "l">>,
      <<"F", "0", "8", "0", "8", "0">>>>,
    <<<<"l", "i", "g", "h", "t", "c", "y", "a", "n">>,
      <<"E", "0", "F", "F", "F", "F">>>>,
    <<<<"l", "i", "g", "h", "t", "g", "o", "l", "d", "e", "n", "r", "o", "d", "y", "e", "l", "l", "o", "w">>,
      <<"F", "A", "F", "A", "D", "2">>>>,
    <<<<"l", "i", "g", "h", "t", "g", "r", "a", "y">>,
      <<"D", "3", "D", "3", "D", "3">>>>,
    <<<<"l", "i", "g", "h", "t", "g", "r", "e", "e", "n">>,
      <<"9", "0", "E", "E", "9", "0">>>>,
    <<<<"l", "i", "g", "h", "t", "g", "r", "e", "y">>,
      <<"D", "3", "D", "3", "D", "3">>>>,
    <<<<"l", "i", "g", "h", "t", "p", "i", "n", "k">>,
      <<"F", "F", "B", "6", "C", "1">>>>,
    <<<<"l", "i", "g", "h", "t", "s", "a", "l", "m", "o", "n">>,
      <<"F", "F", "A", "0", "7", "A">>>>,
    <<<<"l", "i", "g", "h", "t", "s", "e", "a", "g", "r", "e", "e", "n">>,
      <<"2", "0", "B", "2", "A", "A">>>>,
    <<<<"l", "i", "g", "h", "t", "s", "k", "y", "b", "l", "u", "e">>,
      <<"8", "7", "C", "E", "F", "A">>>>,
    <<<<"l", "i", "g", "h", "t", "s", "l", "a", "t", "e", "g", "r", "a", "y">>,
      <<"7", "7", "8", "8", "9", "9">>>>,
    <<<<"l", "i", "g", "h", "t", "s", "l", "a", "t", "e", "g", "r", "e", "y">>,
      <<"7", "7", "8", "8", "9", "9">>>>,
    <<<<"l", "i", "g", "h", "t", "s", "t", "e", "e", "l", "b", "l", "u", "e">>,
      <<"B", "0", "C", "4", "D", "E">>>>,
    <<<<"l", "i", "g", "h", "t", "y", "e", "l", "l", "o", "w">>,
      <<"F", "F", "F", "F", "E", "0">>>>,
    <<<<"l", "i", "m", "e">>,
      <<"0", "0", "F", "F", "0", "0">>>>,
    <<<<"l", "i", "m", "e", "g", "r", "e", "e", "n">>,
      <<"3", "2", "C", "D", "3", "2">>>>,
    <<<<"l", "i", "n", "e", "n">>,
      <<"F", "A", "F", "0", "E", "6">>>>,
    <<<<"m", "a", "g", "e", "n", "t", "a">>,
      <<"F", "F", "0", "0", "F", "F">>>>,
    <<<<"m", "a", "r", "o", "o", "n">>,
      <<"8", "0", "0", "0", "0", "0">>>>,
    <<<<"m", "e", "d", "i", "u", "m", "a", "q", "u", "a", "m", "a", "r", "i", "n", "e">>,
      <<"6", "6", "C", "D", "A", "A">>>>,
    <<<<"m", "e", "d", "i", "u", "m", "b", "l", "u", "e">>,
      <<"0", "0", "0", "0", "C", "D">>>>,
    <<<<"m", "e", "d", "i", "u", "m", "o", "r", "c", "h", "i", "d">>,
      <<"B", "A", "5", "5", "D", "3">>>>,
    <<<<"m", "e", "d", "i", "u", "m", "p", "u", "r", "p", "l", "e">>,
      <<"9", "3", "7", "0", "D", "B">>>>,
    <<<<"m", "e", "d", "i", "u", "m", "s", "e", "a", "g", "r", "e", "e", "n">>,
      <<"3", "C", "B", "3", "7", "1">>>>,
    <<<<"m", "e", "d", "i", "u", "m", "s", "l", "a", "t", "e", "b", "l", "u", "e">>,
      <<"7", "B", "6", "8", "E", "E">>>>,
    <<<<"m", "e", "d", "i", "u", "m", "s", "p", "r", "i", "n", "g", "g", "r", "e", "e", "n">>,
      <<"0", "0", "F", "A", "9", "A">>>>,
    <<<<"m", "e", "d", "i", "u", "m", "t", "u", "r", "q", "u", "o", "i", "s", "e">>,
      <<"4", "8", "D", "1", "C", "C">>>>,
    <<<<"m", "e", "d", "i", "u", "m", "v", "i", "o", "l", "e", "t", "r", "e", "d">>,
      <<"C", "7", "1", "5", "8", "5">>>>,
    <<<<"m", "i", "d", "n", "i", "g", "h", "t", "b", "l", "u", "e">>,
      <<"1", "9", "1", "9", "7", "0">>>>,
    <<<<"m", "i", "n", "t", "c", "r", "e", "a", "m">>,
      <<"F", "5", "F", "F", "F", "A">>>>,
    <<<<"m", "i", "s", "t", "y", "r", "o", "s", "e">>,
      <<"F", "F", "E", "4", "E", "1">>>>,
    <<<<"m", "o", "c", "c", "a", "s", "i", "n">>,
      <<"F", "F", "E", "4", "B", "5">>>>,
    <<<<"n", "a", "v", "a", "j", "o", "w", "h", "i", "t", "e">>,
      <<"F", "F", "D", "E", "A", "D">>>>,
    <<<<"n", "a", "v", "y">>,
      <<"0", "0", "0", "0", "8", "0">>>>,
    <<<<"o", "l", "d", "l", "a", "c", "e">>,
      <<"F", "D", "F", "5", "E", "6">>>>,
    <<<<"o", "l", "i", "v", "e">>,
      <<"8", "0", "8", "0", "0", "0">>>>,
    <<<<"o", "l", "i", "v", "e", "d", "r", "a", "b">>,
      <<"6", "B", "8", "E", "2", "3">>>>,
    <<<<"o", "r", "a", "n", "g", "e">>,
      <<"F", "F", "A", "5", "0", "0">>>>,
    <<<<"o", "r", "a", "n", "g", "e", "r", "e", "d">>,
      <<"F", "F", "4", "5", "0", "0">>>>,
    <<<<"o", "r", "c", "h", "i", "d">>,
      <<"D", "A", "7", "0", "D", "6">>>>,
    <<<<"p", "a", "l", "e", "g", "o", "l", "d", "e", "n", "r", "o", "d">>,
      <<"E", "E", "E", "8", "A", "A">>>>,
    <<<<"p", "a", "l", "e", "g", "r", "e", "e", "n">>,
      <<"9", "8", "F", "B", "9", "8">>>>,
    <<<<"p", "a", "l", "e", "t", "u", "r", "q", "u", "o", "i", "s", "e">>,
      <<"A", "F", "E", "E", "E", "E">>>>,
    <<<<"p", "a", "l", "e", "v", "i", "o", "l", "e", "t", "r", "e", "d">>,
      <<"D", "B", "7", "0", "9", "3">>>>,
    <<<<"p", "a", "p", "a", "y", "a", "w", "h", "i", "p">>,
      <<"F", "F", "E", "F", "D", "5">>>>,
    <<<<"p", "e", "a", "c", "h", "p", "u", "f", "f">>,
      <<"F", "F", "D", "A", "B", "9">>>>,
    <<<<"p", "e", "r", "u">>,
      <<"C", "D", "8", "5", "3", "F">>>>,
    <<<<"p", "i", "n", "k">>,
      <<"F", "F", "C", "0", "C", "B">>>>,
    <<<<"p", "l", "u", "m">>,
      <<"D", "D", "A", "0", "D", "D">>>>,
    <<<<"p", "o", "w", "d", "e", "r", "b", "l", "u", "e">>,
      <<"B", "0", "E", "0", "E", "6">>>>,
    <<<<"p", "u", "r", "p", "l", "e">>,
      <<"8", "0", "0", "0", "8", "0">>>>,
    <<<<"r", "e", "b", "e", "c", "c", "a", "p", "u", "r", "p", "l", "e">>,
      <<"6", "6", "3", "3", "9", "9">>>>,
    <<<<"r", "e", "d">>,
      <<"F", "F", "0", "0", "0", "0">>>>,
    <<<<"r", "o", "s", "y", "b", "r", "o", "w", "n">>,
      <<"B", "C", "8", "F", "8", "F">>>>,
    <<<<"r", "o", "y", "a", "l", "b", "l", "u", "e">>,
      <<"4", "1", "6", "9", "E", "1">>>>,
    <<<<"s", "a", "d", "d", "l", "e", "b", "r", "o", "w", "n">>,
      <<"8", "B", "4", "5", "1", "3">>>>,
    <<<<"s", "a", "l", "m", "o", "n">>,
      <<"F", "A", "8", "0", "7", "2">>>>,
    <<<<"s", "a", "n", "d", "y", "b", "r", "o", "w", "n">>,
      <<"F", "4", "A", "4", "6", "0">>>>,
    <<<<"s", "e", "a", "g", "r", "e", "e", "n">>,
      <<"2", "E", "8", "B", "5", "7">>>>,
    <<<<"s", "e", "a", "s", "h", "e", "l", "l">>,
      <<"F", "F", "F", "5", "E", "E">>>>,
    <<<<"s", "i", "e", "n", "n", "a">>,
      <<"A", "0", "5", "2", "2", "D">>>>,
    <<<<"s", "i", "l", "v", "e", "r">>,
      <<"C", "0", "C", "0", "C", "0">>>>,
    <<<<"s", "k", "y", "b", "l", "u", "e">>,
      <<"8", "7", "C", "E", "E", "B">>>>,
    <<<<"s", "l", "a", "t", "e", "b", "l", "u", "e">>,
      <<"6", "A", "5", "A", "C", "D">>>>,
    <<<<"s", "l", "a", "t", "e", "g", "r", "a", "y">>,
      <<"7", "0", "8", "0", "9", "0">>>>,
    <<<<"s", "l", "a", "t", "e", "g", "r", "e", "y">>,
      <<"7", "0", "8", "0", "9", "0">>>>,
    <<<<"s", "n", "o", "w">>,
      <<"F", "F", "F", "A", "F", "A">>>>,
    <<<<"s", "p", "r", "i", "n", "g", "g", "r", "e", "e", "n">>,
      <<"0", "0", "F", "F", "7", "F">>>>,
    <<<<"s", "t", "e", "e", "l", "b", "l", "u", "e">>,
      <<"4", "6", "8", "2", "B", "4">>>>,
    <<<<"t", "a", "n">>,
      <<"D", "2", "B", "4", "8", "C">>>>,
    <<<<"t", "e", "a", "l">>,
      <<"0", "0", "8", "0", "8", "0">>>>,
    <<<<"t", "h", "i", "s", "t", "l", "e">>,
      <<"D", "8", "B", "F", "D", "8">>>>,
    <<<<"t", "o", "m", "a", "t", "o">>,
      <<"F", "F", "6", "3", "4", "7">>>>,
    <<<<"t", "u", "r", "q", "u", "o", "i", "s", "e">>,
      <<"4", "0", "E", "0", "D", "0">>>>,
    <<<<"v", "i", "o", "l", "e", "t">>,
      <<"E", "E", "8", "2", "E", "E">>>>,
    <<<<"w", "h", "e", "a", "t">>,
      <<"F", "5", "D", "E", "B", "3">>>>,
    <<<<"w", "h", "i", "t", "e">>,
      <<"F", "F", "F", "F", "F", "F">>>>,
    <<<<"w", "h", "i", "t", "e", "s", "m", "o", "k", "e">>,
      <<"F", "5", "F", "5", "F", "5">>>>,
    <<<<"y", "e", "l", "l", "o", "w">>,
      <<"F", "F", "F", "F", "0", "0">>>>,
    <<<<"y", "e", "l", "l", "o", "w", "g", "r", "e", "e", "n">>,
      <<"9", "A", "C", "D", "3", "2">>>>
>>

HexDigitChars ==
    DigitChars \cup {"a", "b", "c", "d", "e", "f", "A", "B", "C", "D", "E", "F"}

\* the value of one hexadecimal digit, as u8::from_str_radix(_, 16) reads it
HexVal(c) ==
    CASE c \in DigitChars -> DigitVal(c)
      [] c \in {"a", "A"} -> 10 [] c \in {"b", "B"} -> 11
      [] c \in {"c", "C"} -> 12 [] c \in {"d", "D"} -> 13
      [] c \in {"e", "E"} -> 14 [] c \in {"f", "F"} -> 15

One == Ratio(1, 1, 0)

\* Color::rgba(r, g, b, a)
Color_rgba(r, g, b, a) ==
    [space |-> "Rgba", red |-> r, green |-> g, blue |-> b, alpha |-> a]

\* Color::rgb(r, g, b): alpha 1.0
Color_rgb(r, g, b) == Color_rgba(r, g, b, One)

\* Color::hsla(h, s, l, a)
Color_hsla(h, s, l, a) ==
    [space |-> "Hsla", hue |-> h, saturation |-> s, lightness |-> l,
     alpha |-> a]

\* Color::hsl(h, s, l): alpha 1.0
Color_hsl(h, s, l) == Color_hsla(h, s, l, One)

\* Color::rgba_u8(r, g, b, a): each byte divided by 255
Color_rgba_u8(r, g, b, a) ==
    Color_rgba(ByteToF32(r), ByteToF32(g), ByteToF32(b), ByteToF32(a))

\* Color::rgb_u8(r, g, b): rgba_u8 with alpha u8::MAX
Color_rgb_u8(r, g, b) == Color_rgba_u8(r, g, b, 255)

\* from_hex(input): u8::from_str_radix(input, 16) of two digits
from_hex(t) == 16 * HexVal(t[1]) + HexVal(t[2])

\* from_half_hex(input): the digit written twice, then from_str_radix
from_half_hex(t) == from_hex(t \o t)

\* Color::hex of a six-digit string
Color_hex(h) ==
    Color_rgb_u8(from_hex(SubSeq(h, 1, 2)), from_hex(SubSeq(h, 3, 4)),
                 from_hex(SubSeq(h, 5, 6)))

\* the argument of Color::hex in the entry of name k
CssColorHex(k) ==
    CssColorEntries[
        CHOOSE i \in DOMAIN CssColorEntries : CssColorEntries[i][1] = k][2]

\* the table with the red and blue bytes of every entry exchanged
CSS_COLOR_TABLE_bgr ==
    [k \in {CssColorEntries[i][1] : i \in DOMAIN CssColorEntries} |->
        Color_hex(SubSeq(CssColorHex(k), 5, 6) \o SubSeq(CssColorHex(k), 3, 4)
                  \o SubSeq(CssColorHex(k), 1, 2))]

\* lazy_static CSS_COLOR_TABLE: HashMap::from of the entries
CSS_COLOR_TABLE ==
    [k \in {CssColorEntries[i][1] : i \in DOMAIN CssColorEntries} |->
        Color_hex(CssColorHex(k))]

\* char(',') of nom::character::streaming, then multispace and float, on a
comma_float_at(a) ==
    IF a = <<>> THEN Err("Incomplete")
    ELSE IF Head(a) # "," THEN Err("Error")
    ELSE float(multispace(Tail(a)), FALSE)

\* preceded(tuple((multispace, char(','), multispace)), float)
comma_float(s) == comma_float_at(multispace(s))

RECURSIVE comma_floats(_, _)
\* n times comma_float: the floats in order, or the first error
comma_floats(s, n) ==
    IF n = 0 THEN Ok(s, <<>>)
    ELSE and_then(comma_float(s),
                  LAMBDA rest, v :
                      map(comma_floats(rest, n - 1), LAMBDA vs : <<v>> \o vs))

\* tuple((preceded(multispace, float), comma_float, ...)) of n floats
float_list(s, n) ==
    and_then(float(multispace(s), FALSE),
             LAMBDA rest, v :
                 map(comma_floats(rest, n - 1), LAMBDA vs : <<v>> \o vs))

\* three floats, or four of which the last is dropped
three_float_parser_or_alpha(i) ==
    alt(<<map(float_list(i, 4), LAMBDA v : SubSeq(v, 1, 3)),
          float_list(i, 3)>>)

three_float_parser(i) == float_list(i, 3)

four_float_parser(i) == float_list(i, 4)

\* tuple((multispace, tag(")"))) and the closing multispace, keeping v
color_fn_close(rest, v) ==
    map(then_multispace(tag(<<")">>, multispace(rest))), LAMBDA x : v)

\* tag("("), multispace, inner_parser and the closing of color_fn_parser
color_fn_open(rest, inner_parser(_)) ==
    and_then(tag(<<"(">>, rest),
             LAMBDA r2, x2 : and_then(inner_parser(multispace(r2)),
                                      color_fn_close))

\* delimited(multispace, delimited(tuple((tag(name), tag("("), multispace)),
\*     inner_parser, tuple((multispace, tag(")")))), multispace)
color_fn_parser(name, inner_parser(_), s) ==
    and_then(tag(name, multispace(s)),
             LAMBDA r1, x1 : color_fn_open(r1, inner_parser))

color_rgb_parser(i) ==
    map(color_fn_parser(<<"r", "g", "b">>, three_float_parser, i),
        LAMBDA v : Color_rgb(v[1], v[2], v[3]))

color_rgba_parser(i) ==
    map(color_fn_parser(<<"r", "g", "b", "a">>, four_float_parser, i),
        LAMBDA v : Color_rgba(v[1], v[2], v[3], v[4]))

color_hsl_parser(i) ==
    map(color_fn_parser(<<"h", "s", "l">>, three_float_parser, i),
        LAMBDA v : Color_hsl(v[1], v[2], v[3]))

color_hsla_parser(i) ==
    map(color_fn_parser(<<"h", "s", "l", "a">>, four_float_parser, i),
        LAMBDA v : Color_hsla(v[1], v[2], v[3], v[4]))

\* map_res(take_while_m_n(2, 2, is_hex_digit), from_hex)
hex_primary(s) ==
    IF SpanLen(Take(s, 2), HexDigitChars) = 2
    THEN Ok(Drop(s, 2), from_hex(Take(s, 2)))
    ELSE Err("Error")

\* map_res(take_while_m_n(1, 1, is_hex_digit), from_half_hex)
hex_half(s) ==
    IF SpanLen(Take(s, 1), HexDigitChars) = 1
    THEN Ok(Drop(s, 1), from_half_hex(Take(s, 1)))
    ELSE Err("Error")

RECURSIVE hex_primaries(_, _)
\* (hex_primary, ..., hex_primary).parse(input) of n elements
hex_primaries(s, n) ==
    IF n = 0 THEN Ok(s, <<>>)
    ELSE and_then(hex_primary(s),
                  LAMBDA rest, v :
                      map(hex_primaries(rest, n - 1), LAMBDA vs : <<v>> \o vs))

RECURSIVE hex_halves(_, _)
\* (hex_half, ..., hex_half).parse(input) of n elements
hex_halves(s, n) ==
    IF n = 0 THEN Ok(s, <<>>)
    ELSE and_then(hex_half(s),
                  LAMBDA rest, v :
                      map(hex_halves(rest, n - 1), LAMBDA vs : <<v>> \o vs))

color_hex6_parser(s) ==
    and_then(tag(<<"#">>, s),
             LAMBDA rest, x :
                 map(hex_primaries(rest, 3),
                     LAMBDA v : Color_rgb_u8(v[1], v[2], v[3])))

color_hex8_parser(s) ==
    and_then(tag(<<"#">>, s),
             LAMBDA rest, x :
                 map(hex_primaries(rest, 4),
                     LAMBDA v : Color_rgba_u8(v[1], v[2], v[3], v[4])))

color_hex3_parser(s) ==
    and_then(tag(<<"#">>, s),
             LAMBDA rest, x :
                 map(hex_halves(rest, 3),
                     LAMBDA v : Color_rgb_u8(v[1], v[2], v[3])))

\* the lookup of the key k: the key is looked up as written
color_css_names_get(k) ==
    IF k \in DOMAIN CSS_COLOR_TABLE
    THEN Ok(<<>>, CSS_COLOR_TABLE[k])
    ELSE Err("Error")

\* CSS_COLOR_TABLE.get(input.trim())
color_css_names_parser(s) == color_css_names_get(trim(s))

\* the alternatives of color_parser with the hex forms tried shortest first
color_alternatives_hex3_first(i) ==
    alt(<<color_rgb_parser(i), color_rgba_parser(i), color_hsl_parser(i),
          color_hsla_parser(i), color_hex3_parser(i), color_hex6_parser(i),
          color_hex8_parser(i), color_css_names_parser(i)>>)

\* alt((rgb, rgba, hsl, hsla, hex8, hex6, hex3, css names))
color_alternatives(i) ==
    alt(<<color_rgb_parser(i), color_rgba_parser(i), color_hsl_parser(i),
          color_hsla_parser(i), color_hex8_parser(i), color_hex6_parser(i),
          color_hex3_parser(i), color_css_names_parser(i)>>)

\* delimited(multispace, alt((...)), multispace)
color_parser(s) == then_multispace(color_alternatives(multispace(s)))

\* color_parser(input).map(|(_, value)| value).ok()
color_string_parser(s) == value_ok(color_parser(s))

(***************************************************************************)
(* The serde adapters.  An adapter is handed a deserializer; what it holds *)
(* is the string `input`, and `deserializer` tells how it hands it out.    *)
(***************************************************************************)
SerdeOk(val) == [tag |-> "Ok", val |-> val]

\* D::Error::custom(msg), and the errors the deserializer makes itself
SerdeErr(msg) == [tag |-> "Err", msg |-> msg]

\* a deserializer lends the string it holds, or holds a string it cannot
\* lend for 'de (an escaped or buffered one), or holds no string at all
DeserializerKinds == {"borrowed_str", "transient_str", "not_str"}

\* let s: &str = serde::Deserialize::deserialize(deserializer): only a
\* borrowed string can be deserialized to a &str
deserialize_str(d, s) ==
    IF d = "borrowed_str" THEN SerdeOk(s) ELSE SerdeErr("invalid type")

\* Option::ok_or
ok_or(o, e) == IF o.some THEN SerdeOk(o.val) ELSE e

\* the `?` after deserialize: its error is returned as it is
try_str(r, o, e) == IF r.tag = "Ok" THEN ok_or(o, e) ELSE r

angle_serde_parser(d, s) ==
    try_str(deserialize_str(d, s), angle_string_parser(s),
            SerdeErr("invalid angle string"))

\* val_serde_parser with the message of the adapter it was copied from
val_serde_parser_angle_message(d, s) ==
    try_str(deserialize_str(d, s), val_string_parser(s),
            SerdeErr("invalid angle string"))

val_serde_parser(d, s) ==
    try_str(deserialize_str(d, s), val_string_parser(s),
            SerdeErr("invalid val string"))

rect_serde_parser(d, s) ==
    try_str(deserialize_str(d, s), rect_string_parser(s),
            SerdeErr("invalid rect string"))

color_serde_parser(d, s) ==
    try_str(deserialize_str(d, s), color_string_parser(s),
            SerdeErr("invalid color string"))

(***************************************************************************)
(* The inputs the parsers are called with.                                 *)
(***************************************************************************)
RECURSIVE Flatten(_)
\* the concatenation of a sequence of strings
Flatten(ss) == IF ss = <<>> THEN <<>> ELSE Head(ss) \o Flatten(Tail(ss))

RECURSIVE Join(_, _)
\* the strings of ss with sep between neighbours
Join(ss, sep) ==
    IF Len(ss) <= 1 THEN Flatten(ss)
    ELSE Head(ss) \o sep \o Join(Tail(ss), sep)

\* the sequences over S of lengths lo..hi
SeqsOf(S, lo, hi) == UNION {[1..k -> S] : k \in lo..hi}

RECURSIVE MapUpper(_)
MapUpper(s) == IF s = <<>> THEN <<>> ELSE <<UpperOf(Head(s))>> \o MapUpper(Tail(s))

Capitalize(s) == IF s = <<>> THEN s ELSE <<UpperOf(Head(s))>> \o Tail(s)

LitDigits == {"0", "5"}

DigitRuns == SeqsOf(LitDigits, 0, MaxDigits)

\* sign, integer digits, point, fraction digits, with a digit somewhere
LiteralStrings ==
    {q[1] \o q[2] \o q[3] \o q[4] :
        q \in {q \in {<<>>, <<"-">>} \X DigitRuns
                      \X {<<>>, <<".">>} \X DigitRuns :
                  /\ q[2] # <<>> \/ q[4] # <<>>
                  /\ q[3] = <<>> => q[4] = <<>>}}

\* the literals of the repository's tests, exponents, and the non-numbers
ExtraLiterals == {<<"+", "5">>, <<"+", ".", "5">>, <<"1", ".", "3", "2">>, <<"4", "2", ".", "4", "2">>, <<"1", "8", "0">>, <<"1", "0", "0", "0">>, <<"1", "0", ".">>, <<"5", "e", "1">>, <<"5", "E", "-", "1">>, <<"5", "e">>, <<"i", "n", "f">>, <<"N", "a", "N">>}

SmallLiterals == {<<"5">>, <<"-", ".", "5">>, <<"5", ".">>}

Leads == {<<>>, <<" ">>, <<"\n", "\t">>}

Trails == {<<>>, <<" ">>, <<"x">>, <<" ", "x">>, <<" ", "5">>}

Decorated(cores) ==
    {l \o c \o t : l \in Leads, c \in cores, t \in Trails}

AngleUnits == {<<"d", "e", "g">>, <<"r", "a", "d">>}

AngleInputs ==
    {l \o u : l \in LiteralStrings \cup ExtraLiterals,
              u \in AngleUnits \cup {<<>>}}
    \cup Decorated({l \o u : l \in SmallLiterals,
                             u \in AngleUnits \cup {<<>>, <<" ", "d", "e", "g">>, <<"D", "E", "G">>}})

ValUnits == {<<"p", "x">>, <<"%">>, <<"v", "w">>, <<"v", "h">>, <<"v", "m", "i", "n">>, <<"v", "m", "a", "x">>}

Str_auto == <<"a", "u", "t", "o">>

ValInputs ==
    {l \o u : l \in LiteralStrings \cup ExtraLiterals,
              u \in ValUnits \cup {<<>>}}
    \cup Decorated({l \o u : l \in SmallLiterals,
                             u \in ValUnits \cup {<<>>, <<" ", "p", "x">>, <<"P", "X">>}}
                   \cup {Str_auto, Capitalize(Str_auto)})

RectTokens == {<<"a", "u", "t", "o">>, <<"1", "p", "x">>, <<"2", "%">>, <<"3", "v", "m", "a", "x">>}

\* the tokens separated by a space, and up to four of them without a gap
RectInputs ==
    {Join(ts, <<" ">>) : ts \in SeqsOf(RectTokens, 1, MaxRectTokens)}
    \cup {Flatten(ts) : ts \in SeqsOf(RectTokens, 1, 4)}
    \cup Decorated({Join(ts, <<" ", "\t">>) : ts \in SeqsOf(RectTokens, 1, 2)})
    \cup {<<"1", "p", "x", "-", ".", "5", "v", "h">>, <<"a", "u", "t", "o", ".", "5", "v", "w", "a", "u", "t", "o">>, <<"2", "%", "5", ".", "v", "m", "i", "n", "-", "5", "p", "x", "0", "%">>}

ColorNames == {CssColorEntries[i][1] : i \in DOMAIN CssColorEntries}

NameInputs ==
    ColorNames
    \cup {Capitalize(n) : n \in ColorNames}
    \cup {MapUpper(n) : n \in ColorNames}
    \cup {<<"n", "o", "t", "a", "c", "o", "l", "o", "r">>, <<"r", "e">>, <<"r", "e", "d", "d">>, <<"t", "r", "a", "n", "s", "p", "a", "r", "e", "n", "t">>}

\* every table entry written as #RRGGBB, #RRGGBBFF and, digit by digit, #RGB
TableHexInputs ==
    UNION {{<<"#">> \o CssColorEntries[i][2],
            <<"#">> \o CssColorEntries[i][2] \o <<"F", "F">>,
            <<"#", CssColorEntries[i][2][1], CssColorEntries[i][2][3],
              CssColorEntries[i][2][5]>>} : i \in DOMAIN CssColorEntries}

HexBytes == {<<"0", "0">>, <<"F", "F">>, <<"a", "5">>, <<"3", "C">>}

HexOdds == {<<>>, <<"0">>, <<"a">>, <<"g">>}

HexInputs ==
    {<<"#">> \o Flatten(ps) \o o :
        ps \in SeqsOf(HexBytes, 0, MaxHexPairs), o \in HexOdds}

FnNames == {<<"r", "g", "b">>, <<"r", "g", "b", "a">>, <<"h", "s", "l">>, <<"h", "s", "l", "a">>}

ChannelLits == {<<"0">>, <<"1", ".", "0">>}

FnInputs ==
    {n \o <<"(">> \o Join(cs, sep) \o <<")">> :
        n \in FnNames, cs \in SeqsOf(ChannelLits, 0, MaxChannels),
        sep \in {<<",">>, <<",", " ">>}}
    \cup {<<"h", "s", "l", "(", "0", ",", " ", "1", ".", "0", ",", " ", "0", ".", "5", ")">>, <<"h", "s", "l", "a", "(", "0", ",", " ", "1", ".", "0", ",", " ", "0", ".", "5", ",", " ", "1", ")">>, <<"r", "g", "b", "(", " ", "1", ".", "0", " ", ",", " ", "0", " ", ",", " ", "0", " ", ")">>, <<"r", "g", "b", "(", "1", ".", "0", ",", " ", "0", ",", " ", "0">>, <<"r", "g", "b", "(", "1", ".", "0", ",", " ", "0", ",", " ", "0", ",", " ">>, <<"r", "g", "b", "(", "1", "e", ",", " ", "0", ",", " ", "0", ")">>, <<"R", "G", "B", "(", "1", ".", "0", ",", " ", "0", ",", " ", "0", ")">>, <<"r", "g", "b", " ", "(", "1", ".", "0", ",", " ", "0", ",", " ", "0", ")">>}

ColorInputs ==
    NameInputs \cup TableHexInputs \cup HexInputs \cup FnInputs
    \cup Decorated({<<"r", "e", "d">>, <<"R", "e", "d">>, <<"#", "F", "0", "0">>, <<"#", "f", "0", "0">>, <<"#", "F", "F", "0", "0", "0", "0">>, <<"#", "F", "F", "0", "0", "0", "0", "F", "F">>, <<"r", "g", "b", "(", "1", ".", "0", ",", " ", "0", ",", " ", "0", ")">>, <<"r", "g", "b", "a", "(", "1", ".", "0", ",", " ", "0", ",", " ", "0", ",", " ", "1", ")">>})

\* the spaces, tabs and newlines put around an input
WsChars == {" ", "\t", "\n"}

WsRuns == SeqsOf(WsChars, 0, MaxWs)

\* inputs of each family that its parser reads to the end
SpacedCores == {<<"5", "d", "e", "g">>, <<"5", "v", "m", "i", "n">>, <<"1", "p", "x", " ", "2", "%">>, <<"r", "e", "d">>, <<"h", "s", "l", "a", "(", "0", ",", "1", ".", "0", ",", "0", ",", "1", ".", "0", ")">>}

SpacedInputs == {l \o c \o t : l \in WsRuns, c \in SpacedCores, t \in WsRuns}

\* the strings held by the deserializers
SerdeCores == {<<"5", "d", "e", "g">>, <<"5">>, <<"5", "p", "x">>, <<"a", "u", "t", "o">>, <<"1", "p", "x", " ", "2", "%">>, <<"r", "e", "d">>, <<"R", "e", "d">>, <<"#", "F", "0", "0">>, <<"#", "1", "2", "3", "4">>, <<"r", "g", "b", "(", "1", ".", "0", ",", " ", "0", ",", " ", "0", ")">>, <<"n", "o", "t", "a", "c", "o", "l", "o", "r">>, <<>>}

SerdeInputs == Decorated(SerdeCores)

\* the names the threads look up: the last entry of the table, and none
ThreadNames == {<<"y", "e", "l", "l", "o", "w", "g", "r", "e", "e", "n">>, <<"n", "o", "t", "a", "c", "o", "l", "o", "r">>}

Inputs ==
    AngleInputs \cup ValInputs \cup RectInputs \cup ColorInputs
    \cup SpacedInputs

(***************************************************************************)
(* CSS_COLOR_TABLE as the threads of a program see it.  lazy_static keeps  *)
(* the HashMap in a cell that starts empty and guards the initializer with *)
(* a std::sync::Once.  A HashMap is the number of entries of the table's   *)
(* list inserted into it so far.                                           *)
(***************************************************************************)
Threads == 1..MaxThreads

\* the cell before the initializer has stored the HashMap
NoTable == [init |-> FALSE]

\* the cell holding a HashMap of the first n entries
TableOf(n) == [init |-> TRUE, entries |-> n]

\* HashMap::get of the key k in a HashMap of the first n entries
hash_get(n, k) ==
    IF \E i \in 1..n : CssColorEntries[i][1] = k
    THEN Ok(<<>>, Color_hex(CssColorHex(k)))
    ELSE Err("Error")

\* the dereference of the static after call_once has returned: a cell that
\* is still empty is read unchecked, and anything may come of it
table_get(t, k) ==
    IF t.init THEN {hash_get(t.entries, k)}
    ELSE {Ok(<<>>, [garbage |-> TRUE]), Err("Error")}

\* a check that lets in every caller until the Once is completed
once_is_not_complete(st) == st # "COMPLETE"

\* Once::call_once runs the closure of the caller that finds the Once
\* untouched
once_is_incomplete(st) == st = "INCOMPLETE"

\* Once::call_once returns to a caller that finds the Once completed
once_is_complete(st) == st = "COMPLETE"

\* a thread that has not called a parser
IdleThread == [pc |-> "idle", name |-> <<>>, got |-> NoResult]

\* the table before any thread has touched it
TableUntouched ==
    /\ once = "INCOMPLETE"
    /\ table = NoTable
    /\ building = 0
    /\ builds = 0
    /\ threads = [t \in Threads |-> IdleThread]

(***************************************************************************)
(* The state machine: a string is chosen, and one parser is called on it.  *)
(***************************************************************************)
Init ==
    /\ input \in Inputs
    /\ call = "none"
    /\ result = NoResult
    /\ deserializer = "none"
    /\ TableUntouched

AngleParser ==
    /\ call = "none"
    /\ call' = "angle_parser"
    /\ result' = angle_parser(input)
    /\ UNCHANGED <<input, deserializer, table_vars>>

AngleStringParser ==
    /\ call = "none"
    /\ call' = "angle_string_parser"
    /\ result' = angle_string_parser(input)
    /\ UNCHANGED <<input, deserializer, table_vars>>

ValParser ==
    /\ call = "none"
    /\ call' = "val_parser"
    /\ result' = val_parser(input)
    /\ UNCHANGED <<input, deserializer, table_vars>>

ValStringParser ==
    /\ call = "none"
    /\ call' = "val_string_parser"
    /\ result' = val_string_parser(input)
    /\ UNCHANGED <<input, deserializer, table_vars>>

RectParser ==
    /\ call = "none"
    /\ call' = "rect_parser"
    /\ result' = rect_parser(input)
    /\ UNCHANGED <<input, deserializer, table_vars>>

RectStringParser ==
    /\ call = "none"
    /\ call' = "rect_string_parser"
    /\ result' = rect_string_parser(input)
    /\ UNCHANGED <<input, deserializer, table_vars>>

ColorParser ==
    /\ call = "none"
    /\ call' = "color_parser"
    /\ result' = color_parser(input)
    /\ UNCHANGED <<input, deserializer, table_vars>>

ColorStringParser ==
    /\ call = "none"
    /\ call' = "color_string_parser"
    /\ result' = color_string_parser(input)
    /\ UNCHANGED <<input, deserializer, table_vars>>

Next ==
    \/ AngleParser
    \/ AngleStringParser
    \/ ValParser
    \/ ValStringParser
    \/ RectParser
    \/ RectStringParser
    \/ ColorParser
    \/ ColorStringParser

Spec == Init /\ [][Next]_vars

(***************************************************************************)
(* SpecSerde: a deserializer holding a string is chosen, and one serde     *)
(* adapter is called on it.                                                *)
(***************************************************************************)
InitSerde ==
    /\ input \in SerdeInputs
    /\ deserializer \in DeserializerKinds
    /\ call = "none"
    /\ result = NoResult
    /\ TableUntouched

AngleSerdeParser ==
    /\ call = "none"
    /\ call' = "angle_serde_parser"
    /\ result' = angle_serde_parser(deserializer, input)
    /\ UNCHANGED <<input, deserializer, table_vars>>

ValSerdeParser ==
    /\ call = "none"
    /\ call' = "val_serde_parser"
    /\ result' = val_serde_parser(deserializer, input)
    /\ UNCHANGED <<input, deserializer, table_vars>>

RectSerdeParser ==
    /\ call = "none"
    /\ call' = "rect_serde_parser"
    /\ result' = rect_serde_parser(deserializer, input)
    /\ UNCHANGED <<input, deserializer, table_vars>>

ColorSerdeParser ==
    /\ call = "none"
    /\ call' = "color_serde_parser"
    /\ result' = color_serde_parser(deserializer, input)
    /\ UNCHANGED <<input, deserializer, table_vars>>

NextSerde ==
    \/ AngleSerdeParser
    \/ ValSerdeParser
    \/ RectSerdeParser
    \/ ColorSerdeParser

SpecSerde == InitSerde /\ [][NextSerde]_vars

(***************************************************************************)
(* SpecTable: threads call color_parser on names, and each call reaches    *)
(* color_css_names_parser, which dereferences CSS_COLOR_TABLE.  A step is  *)
(* one thread's next access to the Once, the HashMap or the cell.          *)
(***************************************************************************)
TableLen == Len(CssColorEntries)

\* every alternative of color_parser before the name lookup fails on i
reaches_name_lookup(i) ==
    alt(<<color_rgb_parser(i), color_rgba_parser(i), color_hsl_parser(i),
          color_hsla_parser(i), color_hex8_parser(i), color_hex6_parser(i),
          color_hex3_parser(i)>>).tag = "Error"

InitTable ==
    /\ input = <<>>
    /\ call = "none"
    /\ result = NoResult
    /\ deserializer = "none"
    /\ TableUntouched

\* thread t calls color_parser and arrives at CSS_COLOR_TABLE.get
ThreadColorParser(t) ==
    /\ threads[t].pc = "idle"
    /\ \E n \in ThreadNames :
           /\ reaches_name_lookup(multispace(n))
           /\ threads' = [threads EXCEPT
                  ![t] = [pc |-> "call_once", name |-> n, got |-> NoResult]]
    /\ UNCHANGED <<input, call, result, deserializer, once, table, building,
                   builds>>

\* call_once finds the Once untouched: t runs the initializer
CallOnceRun(t) ==
    /\ threads[t].pc = "call_once"
    /\ once_is_incomplete(once)
    /\ once' = "RUNNING"
    /\ builds' = builds + 1
    /\ building' = 0
    /\ threads' = [threads EXCEPT ![t].pc = "init"]
    /\ UNCHANGED <<input, call, result, deserializer, table>>

\* HashMap::from([...]) inserts the next entry
HashMapInsert(t) ==
    /\ threads[t].pc = "init"
    /\ building < TableLen
    /\ building' = building + 1
    /\ UNCHANGED <<input, call, result, deserializer, once, table, builds,
                   threads>>

\* the initializer returns the HashMap, and it is stored in the cell
CellSet(t) ==
    /\ threads[t].pc = "init"
    /\ building = TableLen
    /\ table' = TableOf(building)
    /\ threads' = [threads EXCEPT ![t].pc = "set"]
    /\ UNCHANGED <<input, call, result, deserializer, once, building, builds>>

\* the Once is completed, and the threads waiting on it are released
CallOnceComplete(t) ==
    /\ threads[t].pc = "set"
    /\ once' = "COMPLETE"
    /\ threads' = [threads EXCEPT ![t].pc = "get"]
    /\ UNCHANGED <<input, call, result, deserializer, table, building, builds>>

\* call_once returns to a thread that finds the Once completed; a thread
\* that finds it running waits
CallOnceReturn(t) ==
    /\ threads[t].pc = "call_once"
    /\ once_is_complete(once)
    /\ threads' = [threads EXCEPT ![t].pc = "get"]
    /\ UNCHANGED <<input, call, result, deserializer, once, table, building,
                   builds>>

\* CSS_COLOR_TABLE.get(input.trim()), and the closing multispace of
\* color_parser
TableGet(t) ==
    /\ threads[t].pc = "get"
    /\ \E r \in table_get(table, trim(multispace(threads[t].name))) :
           threads' = [threads EXCEPT ![t].pc = "done",
                                      ![t].got = then_multispace(r)]
    /\ UNCHANGED <<input, call, result, deserializer, once, table, building,
                   builds>>

NextTable ==
    \E t \in Threads :
        \/ ThreadColorParser(t)
        \/ CallOnceRun(t)
        \/ HashMapInsert(t)
        \/ CellSet(t)
        \/ CallOnceComplete(t)
        \/ CallOnceReturn(t)
        \/ TableGet(t)

SpecTable == InitTable /\ [][NextTable]_vars

(***************************************************************************)
(* What the claims speak of, read off the input without the parsers: the   *)
(* decimal literals -?\d+, -?\d+\.\d* and -?\d*\.\d+ with their values,    *)
(* the dimension tokens, and the whitespace-separated tokens of an input.  *)
(***************************************************************************)
Count(s, S) == Len(SelectSeq(s, LAMBDA c : c \in S))

LitBody(s) == IF s # <<>> /\ Head(s) = "-" THEN Tail(s) ELSE s

IsDecimalLiteral(s) ==
    /\ Count(LitBody(s), DigitChars \cup {"."}) = Len(LitBody(s))
    /\ Count(LitBody(s), {"."}) <= 1
    /\ Count(LitBody(s), DigitChars) >= 1

\* the digits of the literal as one integer, over ten to the number of
\* digits behind the point
LitValue(s) ==
    Ratio((IF Head(s) = "-" THEN 0 - 1 ELSE 1)
              * DigitsToInt(SelectSeq(LitBody(s), LAMBDA c : c \in DigitChars)),
          Pow10(IF Count(s, {"."}) = 1 THEN SpanLenBack(s, DigitChars) ELSE 0),
          0)

\* s without its last n characters
DropLast(s, n) == SubSeq(s, 1, Len(s) - n)

UnitKinds ==
    {<<<<"p", "x">>, "Px">>, <<<<"%">>, "Percent">>,
     <<<<"v", "w">>, "Vw">>, <<<<"v", "h">>, "Vh">>,
     <<<<"v", "m", "i", "n">>, "VMin">>, <<<<"v", "m", "a", "x">>, "VMax">>}

\* a decimal literal followed by the unit uk[1]
IsUnitToken(t, uk) ==
    EndsWith(t, uk[1]) /\ IsDecimalLiteral(DropLast(t, Len(uk[1])))

IsDimToken(t) == t = Str_auto \/ \E uk \in UnitKinds : IsUnitToken(t, uk)

UnitTokenValue(t, uk) == ValOf(uk[2], LitValue(DropLast(t, Len(uk[1]))))

\* the Val a dimension token stands for
DimTokenValue(t) ==
    IF t = Str_auto THEN ValAuto
    ELSE UnitTokenValue(t, CHOOSE uk \in UnitKinds : IsUnitToken(t, uk))

RECURSIVE WordLen(_)
\* the number of leading characters of s that are not whitespace
WordLen(s) ==
    IF s # <<>> /\ Head(s) \notin MultispaceChars
    THEN 1 + WordLen(Tail(s))
    ELSE 0

RECURSIVE Words(_)
\* the maximal runs of non-whitespace characters of s, in order
Words(s) ==
    IF multispace(s) = <<>> THEN <<>>
    ELSE <<Take(multispace(s), WordLen(multispace(s)))>>
         \o Words(Drop(multispace(s), WordLen(multispace(s))))

AllDimTokens(ws) == \A i \in DOMAIN ws : IsDimToken(ws[i])

IsErr(r) == r.tag \in {"Error", "Failure", "Incomplete"}

\* the remainder r.rest holds a character that is not whitespace
LeavesRemainder(r) == r.tag = "Ok" /\ multispace(r.rest) # <<>>

(***************************************************************************)
(* C1.  A string wrapper returns a value only if the grammar consumed the  *)
(* whole input apart from surrounding whitespace: whenever the family's    *)
(* grammar matches a prefix of the input and leaves a remainder that is    *)
(* not whitespace, the wrapper returns None.                               *)
(***************************************************************************)
C1_WrapperRejectsRemainder ==
    /\ (call = "angle_string_parser" /\ LeavesRemainder(angle_parser(input)))
           => result = None
    /\ (call = "val_string_parser" /\ LeavesRemainder(val_parser(input)))
           => result = None
    /\ (call = "color_string_parser" /\ LeavesRemainder(color_parser(input)))
           => result = None
    /\ (call = "rect_string_parser" /\ LeavesRemainder(rect_parser(input)))
           => result = None

(***************************************************************************)
(* C2.  On an input of k dimension tokens e1..ek separated by whitespace,  *)
(* k in 1..4, rect_parser succeeds with an empty remainder and the rect    *)
(* of the CSS shorthand rule: k=4 top=e1 right=e2 bottom=e3 left=e4; k=3   *)
(* top=e1 left=right=e2 bottom=e3; k=2 top=bottom=e1 left=right=e2; k=1    *)
(* all four sides e1.                                                      *)
(***************************************************************************)
ShorthandRect(e) ==
    CASE Len(e) = 4 -> [top |-> e[1], right |-> e[2], bottom |-> e[3],
                        left |-> e[4]]
      [] Len(e) = 3 -> [top |-> e[1], right |-> e[2], bottom |-> e[3],
                        left |-> e[2]]
      [] Len(e) = 2 -> [top |-> e[1], right |-> e[2], bottom |-> e[1],
                        left |-> e[2]]
      [] Len(e) = 1 -> [top |-> e[1], right |-> e[1], bottom |-> e[1],
                        left |-> e[1]]

TokenValues(ws) == [i \in DOMAIN ws |-> DimTokenValue(ws[i])]

C2_RectShorthand ==
    (/\ call = "rect_parser"
     /\ Len(Words(input)) \in 1..4
     /\ AllDimTokens(Words(input)))
        => result = Ok(<<>>, ShorthandRect(TokenValues(Words(input))))

\* four tokens of four different values were read into the four sides
C2_Witness ==
    /\ call = "rect_parser"
    /\ Len(Words(input)) = 4
    /\ AllDimTokens(Words(input))
    /\ Cardinality({DimTokenValue(Words(input)[i]) : i \in 1..4}) = 4
    /\ result.tag = "Ok"
    /\ result.val.left = DimTokenValue(Words(input)[4])

(***************************************************************************)
(* C3.  On an input of five or more dimension tokens separated by          *)
(* whitespace rect_string_parser returns None: the input is not cut down   *)
(* to the rect of its first four tokens.                                   *)
(***************************************************************************)
C3_FiveTokensFail ==
    (/\ call = "rect_string_parser"
     /\ Len(Words(input)) >= 5
     /\ AllDimTokens(Words(input)))
        => result = None

(***************************************************************************)
(* C4.  For a decimal literal d of value v, angle_parser(d + "deg") is     *)
(* to_radians(v), angle_parser(d + "rad") is v and angle_parser(d) is v,   *)
(* each with an empty remainder: a literal followed by "deg" is never      *)
(* read as a bare float with "deg" left over.                              *)
(***************************************************************************)
Str_deg == <<"d", "e", "g">>

Str_rad == <<"r", "a", "d">>

C4_AngleUnits ==
    call = "angle_parser" =>
        /\ (EndsWith(input, Str_deg) /\ IsDecimalLiteral(DropLast(input, 3)))
               => result = Ok(<<>>, to_radians(LitValue(DropLast(input, 3))))
        /\ (EndsWith(input, Str_rad) /\ IsDecimalLiteral(DropLast(input, 3)))
               => result = Ok(<<>>, LitValue(DropLast(input, 3)))
        /\ IsDecimalLiteral(input) => result = Ok(<<>>, LitValue(input))

\* a literal other than zero with "deg" was converted to radians
C4_Witness ==
    /\ call = "angle_parser"
    /\ EndsWith(input, Str_deg)
    /\ IsDecimalLiteral(DropLast(input, 3))
    /\ LitValue(DropLast(input, 3)).n # 0
    /\ result = Ok(<<>>, to_radians(LitValue(DropLast(input, 3))))
    /\ result.val.p = 1

(***************************************************************************)
(* C5.  val_parser("auto") is Val::Auto, and for a decimal literal d of    *)
(* value v and a suffix among px, %, vw, vh, vmin, vmax, val_parser(d +    *)
(* suffix) is the variant of that suffix carrying v, with an empty         *)
(* remainder.                                                              *)
(***************************************************************************)
C5_ValVariants ==
    call = "val_parser" =>
        /\ input = Str_auto => result = Ok(<<>>, ValAuto)
        /\ \A uk \in UnitKinds :
               IsUnitToken(input, uk)
                   => result = Ok(<<>>, UnitTokenValue(input, uk))

\* a literal with the suffix vmin was read as VMin
C5_Witness ==
    /\ call = "val_parser"
    /\ IsUnitToken(input, <<<<"v", "m", "i", "n">>, "VMin">>)
    /\ result.tag = "Ok"
    /\ result.val.kind = "VMin"
    /\ result.rest = <<>>

(***************************************************************************)
(* C6.  The dimension grammar has no unit-less fallback: on a bare decimal *)
(* literal val_parser returns an error and val_string_parser returns None, *)
(* whereas angle_parser accepts the same literal as radians.               *)
(***************************************************************************)
C6_NoUnitlessVal ==
    IsDecimalLiteral(input) =>
        /\ call = "val_parser" => IsErr(result)
        /\ call = "val_string_parser" => result = None
        /\ call = "angle_parser" => result = Ok(<<>>, LitValue(input))
        /\ call = "angle_string_parser" => result = Some(LitValue(input))

\* val_string_parser was called on a bare literal with a point
C6_Witness ==
    /\ call = "val_string_parser"
    /\ IsDecimalLiteral(input)
    /\ Count(input, {"."}) = 1
    /\ result = None

(***************************************************************************)
(* C7.  On "#" followed by exactly 4, 5 or 7 hexadecimal digits            *)
(* color_string_parser returns None.                                       *)
(***************************************************************************)
\* "#" and then n hexadecimal digits and nothing else
IsHexInput(s, n) ==
    /\ Len(s) = n + 1
    /\ Head(s) = "#"
    /\ Count(Tail(s), HexDigitChars) = n

C7_OddHexFails ==
    (/\ call = "color_string_parser"
     /\ \E n \in {4, 5, 7} : IsHexInput(input, n))
        => result = None

(***************************************************************************)
(* C8.  On "#" followed by exactly n hexadecimal digits color_parser       *)
(* consumes the whole input and decodes by the number of digits: n=8 gives *)
(* R, G, B, A from four pairs; n=6 gives R, G, B from three pairs, alpha   *)
(* opaque; n=3 gives three bytes, each 17 times its digit, alpha opaque.   *)
(***************************************************************************)
\* the byte of the two digits at i and i + 1 of h, over 255
PairChannel(h, i) == Ratio(16 * HexVal(h[i]) + HexVal(h[i + 1]), 255, 0)

\* the byte of the digit at i of h written twice, over 255
HalfChannel(h, i) == Ratio(17 * HexVal(h[i]), 255, 0)

HexColor(h) ==
    CASE Len(h) = 8 -> [space |-> "Rgba", red |-> PairChannel(h, 1),
                        green |-> PairChannel(h, 3), blue |-> PairChannel(h, 5),
                        alpha |-> PairChannel(h, 7)]
      [] Len(h) = 6 -> [space |-> "Rgba", red |-> PairChannel(h, 1),
                        green |-> PairChannel(h, 3), blue |-> PairChannel(h, 5),
                        alpha |-> Ratio(1, 1, 0)]
      [] Len(h) = 3 -> [space |-> "Rgba", red |-> HalfChannel(h, 1),
                        green |-> HalfChannel(h, 2), blue |-> HalfChannel(h, 3),
                        alpha |-> Ratio(1, 1, 0)]

C8_HexByDigitCount ==
    (/\ call = "color_parser"
     /\ \E n \in {3, 6, 8} : IsHexInput(input, n))
        => result = Ok(<<>>, HexColor(Tail(input)))

\* eight digits were read as four pairs, the last a translucent alpha
C8_Witness ==
    /\ call = "color_parser"
    /\ IsHexInput(input, 8)
    /\ result = Ok(<<>>, HexColor(Tail(input)))
    /\ result.val.alpha \notin {Ratio(1, 1, 0), Ratio(0, 1, 0)}
    /\ result.val.red # result.val.blue

(***************************************************************************)
(* C9.  The notations agree: for each name n of the table with entry       *)
(* RRGGBB, "#RRGGBB", "#RRGGBBFF" and, when each byte is a doubled digit,  *)
(* "#RGB" parse to the color that n parses to; "rgb(1.0, 0, 0)" and        *)
(* "rgba(1.0, 0, 0, 1)" parse to the color of "red", opaque pure red.      *)
(***************************************************************************)
IsDoubled(h) == h[1] = h[2] /\ h[3] = h[4] /\ h[5] = h[6]

\* the ways of writing the entry e = <<name, RRGGBB>> in hex
HexNotations(e) ==
    {<<"#">> \o e[2], <<"#">> \o e[2] \o <<"F", "F">>}
    \cup (IF IsDoubled(e[2]) THEN {<<"#", e[2][1], e[2][3], e[2][5]>>} ELSE {})

Str_red == <<"r", "e", "d">>

RedFunctions == {<<"r", "g", "b", "(", "1", ".", "0", ",", " ", "0", ",", " ", "0", ")">>, <<"r", "g", "b", "a", "(", "1", ".", "0", ",", " ", "0", ",", " ", "0", ",", " ", "1", ")">>}

OpaqueRed ==
    [space |-> "Rgba", red |-> Ratio(1, 1, 0), green |-> Ratio(0, 1, 0),
     blue |-> Ratio(0, 1, 0), alpha |-> Ratio(1, 1, 0)]

C9_NotationsAgree ==
    call = "color_parser" =>
        /\ \A i \in DOMAIN CssColorEntries :
               input \in HexNotations(CssColorEntries[i])
                   => /\ result.tag = "Ok"
                      /\ result = color_parser(CssColorEntries[i][1])
        /\ input \in RedFunctions \cup {Str_red}
               => /\ result = color_parser(Str_red)
                  /\ result = Ok(<<>>, OpaqueRed)

\* the six-digit form of an entry whose three bytes differ was parsed to
\* the color of its name
C9_Witness ==
    /\ call = "color_parser"
    /\ \E i \in DOMAIN CssColorEntries :
           /\ input = <<"#">> \o CssColorEntries[i][2]
           /\ result.tag = "Ok"
           /\ result = color_parser(CssColorEntries[i][1])
           /\ Cardinality({result.val.red, result.val.green,
                           result.val.blue}) = 3

(***************************************************************************)
(* C10.  The name lookup is done on the trimmed, lowercased input: for a   *)
(* name n of the table and a case variant n' of it, color_string_parser(n')*)
(* equals color_string_parser(n); names not in the table fail.             *)
(***************************************************************************)
LowerLetters ==
    {"a", "b", "c", "d", "e", "f", "g", "h", "i", "j", "k", "l", "m", "n",
     "o", "p", "q", "r", "s", "t", "u", "v", "w", "x", "y", "z"}

LowerOf(c) ==
    IF \E l \in LowerLetters : UpperOf(l) = c
    THEN CHOOSE l \in LowerLetters : UpperOf(l) = c
    ELSE c

MapLower(s) == [i \in DOMAIN s |-> LowerOf(s[i])]

IsName(s) == Count(s, LowerLetters) = Len(s) /\ s # <<>>

C10_NameCaseInsensitive ==
    call = "color_string_parser" =>
        /\ MapLower(input) \in ColorNames
               => result = color_string_parser(MapLower(input))
        /\ (IsName(MapLower(input)) /\ MapLower(input) \notin ColorNames)
               => result = None

(***************************************************************************)
(* C11.  Surrounding whitespace does not change a parse: when a result     *)
(* parser (angle_parser, val_parser, color_parser, rect_parser) reads an   *)
(* input s to the end, it reads s with any run of spaces, tabs and         *)
(* newlines before and after it to the end too, and returns the same       *)
(* value.                                                                  *)
(***************************************************************************)
ResultParsers == {"angle_parser", "val_parser", "color_parser", "rect_parser"}

\* the result parser named c applied to s
ParserOf(c, s) ==
    CASE c = "angle_parser" -> angle_parser(s)
      [] c = "val_parser" -> val_parser(s)
      [] c = "color_parser" -> color_parser(s)
      [] c = "rect_parser" -> rect_parser(s)

\* s without the spaces, tabs and newlines at its two ends
StripWs(s) ==
    SubSeq(s, SpanLen(s, WsChars) + 1,
           IF SpanLen(s, WsChars) = Len(s) THEN Len(s)
           ELSE Len(s) - SpanLenBack(s, WsChars))

\* when the parse `bare` read its input to the end, so did r, to the same
\* value
SameParse(r, bare) ==
    (bare.tag = "Ok" /\ bare.rest = <<>>) => r = Ok(<<>>, bare.val)

C11_WhitespaceTolerant ==
    (call \in ResultParsers /\ StripWs(input) # input)
        => SameParse(result, ParserOf(call, StripWs(input)))

\* a rect was read from an input with a newline or tab before it and
\* whitespace after it
C11_Witness ==
    /\ call = "rect_parser"
    /\ SpanLen(input, WsChars) = MaxWs
    /\ SpanLenBack(input, WsChars) = MaxWs
    /\ input[1] \in {"\t", "\n"}
    /\ input[Len(input)] \in {"\t", "\n"}
    /\ result.tag = "Ok"
    /\ result.rest = <<>>
    /\ result.val.top # result.val.right

(***************************************************************************)
(* C12.  Under every interleaving of threads whose color parses reach the  *)
(* name lookup, the initializer of CSS_COLOR_TABLE runs exactly once, no   *)
(* thread reads a table that is not completely built, and once the table   *)
(* is stored no step changes it.                                           *)
(***************************************************************************)
\* thread t has passed call_once
PastCallOnce(t) == threads[t].pc \in {"get", "done"}

\* the initializer has run at most once; for a thread past call_once it has
\* run once and the cell holds every entry; a finished thread has the
\* result of the sequential color_parser
C12_BuiltOnceAndWhole ==
    /\ builds <= 1
    /\ \A t \in Threads :
           PastCallOnce(t) => (builds = 1 /\ table = TableOf(TableLen))
    /\ \A t \in Threads :
           threads[t].pc = "done"
               => threads[t].got = color_parser(threads[t].name)

\* a stored table stays as it is
C12_TableKept == table.init => table' = table

C12_TableBuiltOnce == [](C12_BuiltOnceAndWhole) /\ [][C12_TableKept]_vars

\* every thread has finished its lookup, one found its name and one did not
C12_Witness ==
    /\ \A t \in Threads : threads[t].pc = "done"
    /\ \E t \in Threads : threads[t].got.tag = "Ok"
    /\ \E t \in Threads : threads[t].got.tag = "Error"
    /\ builds = 1

(***************************************************************************)
(* C13.  A serde adapter adds no logic of its own: once the deserializer   *)
(* has handed it the string s, it returns Ok(v) exactly when the family's  *)
(* string wrapper returns Some(v) on s, and otherwise the error made from  *)
(* the family's fixed message: "invalid angle string", "invalid val        *)
(* string", "invalid rect string", "invalid color string".                 *)
(***************************************************************************)
\* the adapter's result for the wrapper's result o and the message msg
AdapterResult(o, msg) == IF o.some THEN SerdeOk(o.val) ELSE SerdeErr(msg)

\* the deserializer has handed out the string
GivenString == deserialize_str(deserializer, input).tag = "Ok"

RECURSIVE FieldLen(_)
\* the number of characters of s before its first comma
FieldLen(s) == IF s # <<>> /\ Head(s) # "," THEN 1 + FieldLen(Tail(s)) ELSE 0

RECURSIVE CommaFields(_)
\* the pieces of s between its commas
CommaFields(s) ==
    IF FieldLen(s) = Len(s) THEN <<s>>
    ELSE <<Take(s, FieldLen(s))>> \o CommaFields(Drop(s, FieldLen(s) + 1))

\* what stands between the parentheses of name(...)
FnArgs(s, n) == SubSeq(s, Len(n) + 2, Len(s) - 1)

\* s is the name n, "(", floats separated by commas (or nothing), ")"
IsFnForm(s, n) ==
    /\ StartsWith(s, n \o <<"(">>)
    /\ s[Len(s)] = ")"
    /\ \/ StripWs(FnArgs(s, n)) = <<>>
       \/ \A i \in DOMAIN CommaFields(FnArgs(s, n)) :
              IsDecimalLiteral(StripWs(CommaFields(FnArgs(s, n))[i]))

\* the number of floats between the parentheses
ChannelCount(s, n) ==
    IF StripWs(FnArgs(s, n)) = <<>> THEN 0 ELSE Len(CommaFields(FnArgs(s, n)))

\* the number of floats the form of name n takes
ChannelsOf(n) == IF n[Len(n)] = "a" THEN 4 ELSE 3

C14_WrongChannelCountFails ==
    \A n \in FnNames :
        (/\ call = "color_parser"
         /\ IsFnForm(input, n)
         /\ ChannelCount(input, n) # ChannelsOf(n))
            => IsErr(result)

\* rgba(...) with three floats, which rgb(...) would take, has failed
C14_Witness ==
    /\ call = "color_parser"
    /\ IsFnForm(input, <<"r", "g", "b", "a">>)
    /\ ChannelCount(input, <<"r", "g", "b", "a">>) = 3
    /\ IsErr(result)

(***************************************************************************)
(* C15.  rect_parser tries the arities in the order four, three, two, one, *)
(* each on the whole input.  An attempt that runs out of input before it   *)
(* has read all its elements fails with an ordinary error: the Incomplete  *)
(* of the streaming number reader of val_parser is turned into an Error by *)
(* `complete`, so it never ends rect_parser, and the next shorter arity is *)
(* tried.                                                                  *)
(***************************************************************************)
\* the attempt of arity n on s runs out of input
RunsOut(n, s) == val_tuple(s, n).tag = "Incomplete"

\* the results of the attempts on s, the one of arity n at index n
ArityResults(s) ==
    <<one_rect_parser(s), two_rect_parser(s), three_rect_parser(s),
      four_rect_parser(s)>>

\* whether the attempts on s run out of input, by arity
ArityRunsOut(s) == [n \in 1..4 |-> RunsOut(n, s)]

\* every arity longer than n has failed with an ordinary error
LongerFail(n, rs) == \A m \in (n + 1)..4 : rs[m].tag = "Error"

\* r is the result of the first arity in the order 4, 3, 2, 1 that does not
\* fail with an ordinary error, and an attempt that ran out of input did
InOrder(r, rs, out) ==
    /\ r.tag # "Incomplete"
    /\ \A n \in 1..4 : out[n] => rs[n].tag = "Error"
    /\ \A n \in 1..4 : (LongerFail(n, rs) /\ rs[n].tag = "Ok") => r = rs[n]
    /\ LongerFail(0, rs) => r.tag = "Error"

C15_AritiesInOrder ==
    call = "rect_parser"
        => InOrder(result, ArityResults(input), ArityRunsOut(input))

\* the attempts of four and three elements ran out of input, and the rect
\* is the one of the attempt of two
C15_Witness ==
    /\ call = "rect_parser"
    /\ RunsOut(4, input)
    /\ RunsOut(3, input)
    /\ two_rect_parser(input).tag = "Ok"
    /\ result = two_rect_parser(input)
    /\ result.val.top # result.val.left

(***************************************************************************)
(* C16.  rect_parser needs no whitespace between the elements: on the      *)
(* dimension tokens e1..ek written one after the other without a gap, k in *)
(* 1..4, it returns the rect, and the empty remainder, that it returns on  *)
(* the same tokens separated by a space.                                   *)
(***************************************************************************)
\* the length of the dimension token s starts with, 0 when there is none
TokenLen(s) ==
    IF \E k \in 1..Len(s) : IsDimToken(Take(s, k))
    THEN CHOOSE k \in 1..Len(s) : IsDimToken(Take(s, k))
    ELSE 0

RECURSIVE Tokens(_)
\* the dimension tokens s is the concatenation of; when s is none, the
\* sequence ends with the part of s that is no token
Tokens(s) ==
    IF s = <<>> THEN <<>>
    ELSE IF TokenLen(s) = 0 THEN <<s>>
    ELSE <<Take(s, TokenLen(s))>> \o Tokens(Drop(s, TokenLen(s)))

\* s is k dimension tokens without a gap, k in 1..4
IsConcatenation(s) ==
    /\ Len(Tokens(s)) \in 1..4
    /\ AllDimTokens(Tokens(s))

C16_NoWhitespaceNeeded ==
    (call = "rect_parser" /\ IsConcatenation(input))
        => /\ result = rect_parser(Join(Tokens(input), <<" ">>))
           /\ result = Ok(<<>>, ShorthandRect(TokenValues(Tokens(input))))

\* three tokens of different values without a gap were read into a rect
C16_Witness ==
    /\ call = "rect_parser"
    /\ IsConcatenation(input)
    /\ Len(Tokens(input)) = 3
    /\ Cardinality({DimTokenValue(Tokens(input)[i]) : i \in 1..3}) = 3
    /\ result.tag = "Ok"
    /\ result.val.bottom = DimTokenValue(Tokens(input)[3])

====
